---- MODULE Spec2Model ----
(***************************************************************************)
(* Model of the VoxWorld stream playback engine: the six-stage RadioPlayer *)
(* component (components/RadioPlayer.tsx, six-stage variant), driven by    *)
(* the App component (playStation / togglePlay) and by the events of the   *)
(* HTML media element and of the hls.js adapter.                           *)
(*                                                                         *)
(* React is modelled in two phases: state setters change the component     *)
(* state at once (retryStage, error, ...), while the closures of the last  *)
(* committed render keep seeing the values of that render (rendered,       *)
(* listenerStage, the closure fields of hlsRef and of the play promises).  *)
(* Render commits the state and runs the effects whose dependencies        *)
(* changed, in the order the component declares them.                      *)
(*                                                                         *)
(* A URL is a sequence of tokens ("http://", "a", "/", ".m3u8", ...), so   *)
(* startsWith / endsWith / includes / replace are computed on it.          *)
(*                                                                         *)
(* The specifications share the state:                                     *)
(*   Spec          the player under every interleaving of clicks, renders, *)
(*                 media events, adapter events and animation frames;      *)
(*   DeadSpec      one station whose every load attempt fails;             *)
(*   TeardownSpec  that station, in a player the host may unmount;         *)
(*   CorsSpec      one station whose original URL answers without CORS     *)
(*                 only;                                                   *)
(*   AdapterSpec   the adapter session of the three-stage variant, for a   *)
(*                 segmented station whose loads keep failing;             *)
(*   ResolverSpec  getUrlForStage and the attempt policy, applied stage by *)
(*                 stage to each station of StationTable;                  *)
(*   AppSpec       the App's lists (stations, favorites, recentlyPlayed,   *)
(*                 votedIds) under playStation, toggleFavorite, handleVote.*)
(***************************************************************************)
EXTENDS Integers, Sequences, FiniteSets, TLC

\* ------------------------------------------------------------------ bounds
\* retryStage is incremented without a guard by the code; the model stops
\* delivering failures once it reaches StageCap.
StageCap == 6

\* The resolver is applied at most MaxCalls times to one (station, stage).
MaxCalls == 2

\* draw counts its frames in `time`; the model stops at MaxTime frames per
\* run of the visualizer effect.
MaxTime == 2

\* ------------------------------------------------------- program constants
\* handlePlaybackError: `if (retryStage >= 5)`, the last stage of the table.
FinalStage == 5
\* load effect: `if (retryStage >= 3) audio.removeAttribute('crossOrigin')`.
NoCorsStage == 3
\* MediaError.code values tested by handlePlaybackError.
MEDIA_ERR_NETWORK == 2
MEDIA_ERR_DECODE == 3

NoStation == 0
NoError == "null"
NoListener == -1
NoHls == [state |-> "none", isPlaying |-> FALSE, hasError |-> FALSE]
\* animationRef holds no pending frame.
NoFrame == [pending |-> FALSE, isCorsBlocked |-> FALSE, time |-> 0]

ErrorTypes == {"NETWORK", "DECODE", "ACCESS", "OFFLINE", "UNKNOWN"}

\* Values Date.now() can return when a stage-5 URL is built.
Times == {"t1", "t2"}

\* MediaError codes an 'error' event can carry; 0 stands for audio.error
\* being null when the handler reads it.
ErrorCodes == 0 .. 4

\* ---------------------------------------------------------------- stations
\* Station records as the directory service supplies them (types.ts: url,
\* url_resolved, stationuuid, hls).  url_resolved may be the empty string.
StationTable ==
  [ i \in 1 .. 4 |->
      CASE i = 1 -> [stationuuid |-> 1,
                     url          |-> <<"http://", "a">>,
                     url_resolved |-> <<"https://", "a", ".m3u8">>,
                     hls          |-> 1]
        [] i = 2 -> [stationuuid |-> 2,
                     url          |-> <<"https://", "b", "/">>,
                     url_resolved |-> <<"http://", "b">>,
                     hls          |-> 0]
        [] i = 3 -> [stationuuid |-> 3,
                     url          |-> <<"http://", "c", "/">>,
                     url_resolved |-> <<>>,
                     hls          |-> 0]
        [] OTHER -> [stationuuid |-> 4,
                     url          |-> <<"https://", "d", "?", "q">>,
                     url_resolved |-> <<"http://", "d", ";">>,
                     hls          |-> 0] ]

\* The stations the listener tunes to in the player's specification.
Stations == {1, 2}

\* ------------------------------------------------------------ URL helpers
startsWith(url, tok) == Len(url) > 0 /\ url[1] = tok

endsWith(url, tok) == Len(url) > 0 /\ url[Len(url)] = tok

includes(url, tok) == \E i \in 1 .. Len(url) : url[i] = tok

\* String.prototype.replace with a string pattern: first occurrence only.
replace(url, tok, by) ==
  IF includes(url, tok)
    THEN LET i == CHOOSE j \in 1 .. Len(url) :
                    url[j] = tok /\ \A k \in 1 .. j - 1 : url[k] # tok
         IN  [url EXCEPT ![i] = by]
    ELSE url

\* ------------------------------------------------------------ the resolver
\* Mutant of UsesResolved: stage 3 takes the original URL.
UsesResolvedEarlyOnly(stage) == stage = 0 \/ stage = 1

\* `(stage === 0 || stage === 1 || stage === 3)`
UsesResolved(stage) == stage = 0 \/ stage = 1 \/ stage = 3

\* `(s.url_resolved || s.url)` or `s.url`: the URL the stage starts from.
ChosenUrl(s, stage) ==
  IF UsesResolved(stage)
    THEN (IF s.url_resolved # <<>> THEN s.url_resolved ELSE s.url)
    ELSE s.url

\* Mutant of UpgradeStage: the upgrade is tried one stage longer.
UpgradeStageThroughTwo(stage) == stage <= 2

\* `stage <= 1`
UpgradeStage(stage) == stage <= 1

\* Mutant of LegacyStage: the legacy mutation starts one stage early.
LegacyStageFromFour(stage) == stage >= 4

\* Mutant of LegacyStage: the legacy mutation is never applied.
LegacyStageNever(stage) == FALSE

\* `stage === 5`
LegacyStage(stage) == stage = 5

getUrlForStage(s, stage, secure, now) ==
  LET base == ChosenUrl(s, stage)
      up   == IF UpgradeStage(stage) /\ startsWith(base, "http://") /\ secure
                THEN replace(base, "http://", "https://")
                ELSE base
      hack == IF ~endsWith(up, ";") /\ ~includes(up, "?")
                THEN (IF endsWith(up, "/") THEN up \o <<";">>
                                           ELSE up \o <<"/", ";">>)
                ELSE up
      sep  == IF includes(hack, "?") THEN "&" ELSE "?"
  IN  IF LegacyStage(stage) THEN hack \o <<sep, "cb=", now>> ELSE up

\* ------------------------------------------------------------------- state
VARIABLES
  station,        \* App: currentStation (a key of StationTable, or NoStation)
  isPlaying,      \* App: isPlaying
  retryStage,     \* RadioPlayer: useState(0)
  error,          \* RadioPlayer: error state, NoError or the error's type
  errorDirty,     \* the error state is not the object the last render saw
  isBuffering,    \* RadioPlayer: isBuffering
  rendered,       \* props and state captured by the last committed render
  audio,          \* the <audio> element behind audioRef
  listenerStage,  \* retryStage closed over by the attached listeners
  hlsRef,         \* hlsRef.current, with the closure of its handlers
  hlsLive,        \* number of Hls instances created and not destroyed
  playPromises,   \* promises returned by audio.play(), with their safePlay
  pageSecure,     \* window.location.protocol === 'https:'
  hlsSupported,   \* Hls.isSupported()
  isCorsBlocked,  \* RadioPlayer: isCorsBlocked
  audioCtxRef,    \* audioCtxRef.current and analyserRef.current are set
  tapAttempts,    \* times initAudioContext has tried to build the tap
  ctxCreated,     \* AudioContext objects constructed so far
  sourceCreated,  \* MediaElementSource nodes created for the element
  animationRef,   \* the pending animation frame of draw, with its closure
  amplitude,      \* RadioPlayer: amplitude, by the branch of draw that set it
  probe,          \* the resolver applied to one (station, stage), call by call
  mounted,        \* the RadioPlayer component is mounted
  hlsRetry,       \* hls.js: load retries made since the last (re)start
  stations,       \* App: stations, the list the directory returned
  favorites,      \* App: favorites
  recentlyPlayed, \* App: recentlyPlayed
  votedIds,       \* App: votedIds
  voteRequests    \* handleVote calls waiting for voteForStation

vars == << station, isPlaying, retryStage, error, errorDirty, isBuffering,
           rendered, audio, listenerStage, hlsRef, hlsLive, playPromises,
           pageSecure, hlsSupported, isCorsBlocked, audioCtxRef, tapAttempts,
           ctxCreated, sourceCreated, animationRef, amplitude, probe,
           mounted, hlsRetry, stations, favorites, recentlyPlayed, votedIds,
           voteRequests >>

envVars == << pageSecure, hlsSupported >>

analysisVars == << isCorsBlocked, audioCtxRef, tapAttempts, ctxCreated,
                   sourceCreated, animationRef, amplitude >>

appVars == << stations, favorites, recentlyPlayed, votedIds, voteRequests >>

\* What the specification of the player leaves alone.
harnessVars == << probe, mounted, hlsRetry, appVars >>

\* No resolver call is being followed.
NoProbe == [station |-> NoStation, stage |-> 0, calls |-> << >>]

NoAudio ==
  [exists |-> FALSE, src |-> <<>>, crossOrigin |-> FALSE, paused |-> TRUE,
   error |-> 0, readyState |-> "empty", srcStation |-> NoStation,
   srcStage |-> 0]

InitPlayer ==
  /\ station = NoStation
  /\ isPlaying = FALSE
  /\ retryStage = 0
  /\ error = NoError
  /\ errorDirty = FALSE
  /\ isBuffering = FALSE
  /\ rendered = [station |-> NoStation, isPlaying |-> FALSE,
                 retryStage |-> 0, error |-> NoError,
                 isCorsBlocked |-> FALSE]
  /\ audio = NoAudio
  /\ listenerStage = NoListener
  /\ hlsRef = NoHls
  /\ hlsLive = 0
  /\ playPromises = {}
  /\ pageSecure \in BOOLEAN
  /\ hlsSupported \in BOOLEAN
  /\ isCorsBlocked = FALSE
  /\ audioCtxRef = FALSE
  /\ tapAttempts = 0
  /\ ctxCreated = 0
  /\ sourceCreated = 0
  /\ animationRef = NoFrame
  /\ amplitude = "zero"

\* The App's lists before anything is loaded or fetched.
InitApp ==
  /\ stations = << >>
  /\ favorites = << >>
  /\ recentlyPlayed = << >>
  /\ votedIds = {}
  /\ voteRequests = {}

\* The player is mounted with the App; no adapter has loaded anything.
InitMounted == mounted = TRUE /\ hlsRetry = 0

Init == InitPlayer /\ probe = NoProbe /\ InitMounted /\ InitApp


\* ------------------------------------------------------- React state setters
\* setError(null): a change of state only if the rendered error is an object.
ErrorDirtyAfterNull == rendered.error # NoError

\* A settled promise has a reaction waiting in the microtask queue; it runs
\* before the next task (event, click, render).
Settled(p) == p.state \notin {"pending", "failing"}

MicrotaskPending == \E p \in playPromises : Settled(p)

\* A render is due when a prop or a state the component reads has changed.
Dirty ==
  \/ station # rendered.station
  \/ isPlaying # rendered.isPlaying
  \/ retryStage # rendered.retryStage
  \/ errorDirty
  \/ isCorsBlocked # rendered.isCorsBlocked

\* ----------------------------------------------------------- App (driver)
\* playStation: a click on a station card, as the player's props show it;
\* the lists of the App are followed by playStation in AppSpec.
PlayStation(s) ==
  /\ ~MicrotaskPending
  /\ station' = s
  /\ isPlaying' = TRUE
  /\ UNCHANGED << retryStage, error, errorDirty, isBuffering, rendered, audio,
                  listenerStage, hlsRef, hlsLive, playPromises, envVars,
                  analysisVars, harnessVars >>

\* togglePlay, through the player's play/pause button (onTogglePlay).
TogglePlay ==
  /\ ~MicrotaskPending
  /\ rendered.station # NoStation
  /\ isPlaying' = ~isPlaying
  /\ UNCHANGED << station, retryStage, error, errorDirty, isBuffering,
                  rendered, audio, listenerStage, hlsRef, hlsLive,
                  playPromises, envVars,
                  analysisVars, harnessVars >>

\* ------------------------------------------------------------- RadioPlayer
\* Mutant of handleManualRetry: setRetryStage(0) is left out.
handleManualRetryKeepsStage ==
  /\ ~MicrotaskPending
  /\ rendered.station # NoStation
  /\ rendered.error # NoError
  /\ error' = NoError
  /\ errorDirty' = ErrorDirtyAfterNull
  /\ isBuffering' = TRUE
  /\ isPlaying' = IF ~rendered.isPlaying THEN ~isPlaying ELSE isPlaying
  /\ UNCHANGED << station, retryStage, rendered, audio, listenerStage, hlsRef,
                  hlsLive, playPromises, envVars, analysisVars, harnessVars >>

\* The TUNER RESET button, rendered only while the rendered error is set.
handleManualRetry ==
  /\ ~MicrotaskPending
  /\ rendered.station # NoStation
  /\ rendered.error # NoError
  /\ retryStage' = 0
  /\ error' = NoError
  /\ errorDirty' = ErrorDirtyAfterNull
  /\ isBuffering' = TRUE
  /\ isPlaying' = IF ~rendered.isPlaying THEN ~isPlaying ELSE isPlaying
  /\ UNCHANGED << station, rendered, audio, listenerStage, hlsRef, hlsLive,
                  playPromises, envVars,
                  analysisVars, harnessVars >>

\* Mutant of safePlayGuard: the test of error is left out.
safePlayGuardIntentOnly(closureIsPlaying, closureHasError) ==
  closureIsPlaying

\* safePlay as the render with (closureIsPlaying, closureError) built it:
\* the play promises after the call.  audio.play() on an element whose error
\* is MEDIA_ERR_SRC_NOT_SUPPORTED returns a rejected promise.
safePlayGuard(closureIsPlaying, closureHasError) ==
  closureIsPlaying /\ ~closureHasError

safePlay(promises, closureIsPlaying, closureHasError, hasCatch, stage, failed) ==
  IF safePlayGuard(closureIsPlaying, closureHasError)
    THEN promises \cup
           {[state    |-> IF failed THEN "NotSupportedError" ELSE "pending",
             hasCatch |-> hasCatch,
             stage    |-> stage]}
    ELSE promises

\* audio.pause() and the load algorithm reject the pending play promises
\* with AbortError; a rejection already queued keeps its own reason.
AbortPending(promises) ==
  { IF p.state = "pending" THEN [p EXCEPT !.state = "AbortError"]
    ELSE IF p.state = "failing" THEN [p EXCEPT !.state = "NotSupportedError"]
    ELSE p : p \in promises }

\* Mutant of DestroyHls: the previous instance is dropped, not destroyed.
DestroyHlsSkipped(live) == live

\* The teardown at the head of the load effect.
DestroyHls(live) == IF hlsRef # NoHls THEN live - 1 ELSE live

\* `streamUrl.includes('.m3u8') && Hls.isSupported() && retryStage === 0`
UseHls(url, stage) == includes(url, ".m3u8") /\ hlsSupported /\ stage = 0

\* Mutant of CrossOriginFor: only stage 3 drops the attribute.
CrossOriginButAtThree(stage) == stage # NoCorsStage

\* `if (retryStage >= 3) removeAttribute('crossOrigin') else "anonymous"`
CrossOriginFor(stage) == stage < NoCorsStage

\* The load effect, run by the render that saw (s, k, p, e).
LoadEffect(s, k, p, e, now) ==
  LET url     == getUrlForStage(StationTable[s], k, pageSecure, now)
      useHls  == UseHls(url, k)
      aborted == AbortPending(playPromises)
      plays   == ~useHls /\ p /\ safePlayGuard(p, e # NoError)
  IN  /\ hlsLive' = DestroyHls(hlsLive) + (IF useHls THEN 1 ELSE 0)
      /\ hlsRef' = IF useHls
                     THEN [state |-> "loading", isPlaying |-> p,
                           hasError |-> e # NoError]
                     ELSE NoHls
      /\ audio' = [exists      |-> TRUE,
                   src         |-> IF useHls THEN <<"blob:">> ELSE url,
                   crossOrigin |-> CrossOriginFor(k),
                   paused      |-> ~plays,
                   error       |-> 0,
                   readyState  |-> "loading",
                   srcStation  |-> s,
                   srcStage    |-> k]
      /\ playPromises' = IF useHls \/ ~p
                           THEN aborted
                           ELSE safePlay(aborted, p, e # NoError, TRUE, k, FALSE)
      /\ isBuffering' = TRUE

\* ------------------------------------------------------ visualizer effect
\* What building the tap can do: it is attached, `new AudioContext()`
\* throws, or createMediaElementSource throws.
TapOutcomes == {"attached", "contextThrows", "sourceThrows"}

\* Mutant of CallsInit: initAudioContext is called whatever isCorsBlocked is.
CallsInitAlways(blocked) == TRUE

\* `if (!isCorsBlocked) initAudioContext()`
CallsInit(blocked) == ~blocked

\* Mutant of NeedsContext: the context is built on every call.
NeedsContextAlways(ctxRef) == TRUE

\* `if (!audioCtxRef.current)`
NeedsContext(ctxRef) == ~ctxRef

\* `if (!sourceRef.current)`
NeedsSource(sources) == sources = 0

\* initAudioContext; resume() of an existing context changes nothing here.
initAudioContext(outcome) ==
  IF NeedsContext(audioCtxRef)
    THEN LET threw == \/ outcome = "contextThrows"
                      \/ outcome = "sourceThrows" /\ NeedsSource(sourceCreated)
         IN  /\ tapAttempts' = tapAttempts + 1
             /\ ctxCreated' = IF outcome = "contextThrows"
                                THEN ctxCreated ELSE ctxCreated + 1
             /\ sourceCreated' = IF ~threw /\ NeedsSource(sourceCreated)
                                   THEN sourceCreated + 1 ELSE sourceCreated
             /\ audioCtxRef' = ~threw
             /\ isCorsBlocked' = threw
    ELSE UNCHANGED << tapAttempts, ctxCreated, sourceCreated, audioCtxRef,
                      isCorsBlocked >>

\* Values a byte of getByteFrequencyData can hold, Math.sin can return (in
\* thousandths), and the number of bins the model gives the analyser.
Bytes == {0, 128, 255}

SinValues == {-1000, 0, 1000}

BinCount == 2

RECURSIVE SumBins(_, _)
\* `for (let i = 0; i < bufferLength; i++) sum += freqData[i]`
SumBins(freqData, n) ==
  IF n = 0 THEN 0 ELSE freqData[n] + SumBins(freqData, n - 1)

\* `sum / bufferLength / 255`, in thousandths.
LiveAmplitude(freqData) ==
  (SumBins(freqData, Len(freqData)) * 1000) \div (Len(freqData) * 255)

\* `0.2 + Math.sin(time) * 0.1`, in thousandths.
SyntheticAmplitude(sin) == 200 + (sin * 100) \div 1000

\* The values setAmplitude can receive from a branch of draw, in thousandths;
\* "zero" is useState(0) and the `else setAmplitude(0)` of draw.
AmplitudeValues(branch) ==
  CASE branch = "live" ->
         {LiveAmplitude(f) : f \in [1 .. BinCount -> Bytes]}
    [] branch = "synthetic" -> {SyntheticAmplitude(s) : s \in SinValues}
    [] OTHER -> {0}

\* Mutant of DrawBranch: the analyser branch is taken without its test.
DrawBranchLive(blocked, ctxRef) == "live"

\* The branch of draw that sets the amplitude, for a closure that saw
\* isCorsBlocked = blocked: `if (analyserRef.current && !isCorsBlocked)`.
DrawBranch(blocked, ctxRef) == IF ctxRef /\ ~blocked THEN "live" ELSE "synthetic"

\* The visualizer effect of the render that saw (p, e, blocked): the cleanup
\* of the previous run, then init and the first draw, or the cancellation.
VisualizerEffect(p, e, blocked, outcome) ==
  IF p /\ e = NoError
    THEN /\ IF CallsInit(blocked)
              THEN initAudioContext(outcome)
              ELSE UNCHANGED << tapAttempts, ctxCreated, sourceCreated,
                                audioCtxRef, isCorsBlocked >>
         /\ amplitude' = DrawBranch(blocked, audioCtxRef')
         /\ animationRef' = [pending |-> TRUE, isCorsBlocked |-> blocked,
                             time |-> 1]
    ELSE /\ animationRef' = NoFrame
         /\ UNCHANGED << tapAttempts, ctxCreated, sourceCreated, audioCtxRef,
                         isCorsBlocked, amplitude >>

\* The outcomes open to the effect run of (p, e, blocked): building the tap
\* can only throw where it is built.
OutcomesFor(p, e, blocked) ==
  IF p /\ e = NoError /\ CallsInit(blocked) /\ NeedsContext(audioCtxRef)
    THEN TapOutcomes ELSE {"attached"}

\* `[isPlaying, error, isCorsBlocked]`
VisualizerDeps ==
  \/ isPlaying # rendered.isPlaying
  \/ errorDirty
  \/ isCorsBlocked # rendered.isCorsBlocked

\* Date.now() is read by getUrlForStage at the final stage only.
ClockReads(stage) == IF stage = FinalStage THEN Times ELSE {"t1"}

\* Dependencies of the other effects, compared with the last commit.
LoadDeps ==
  \/ station # rendered.station
  \/ retryStage # rendered.retryStage
  \/ isPlaying # rendered.isPlaying
  \/ errorDirty

ListenerDeps == retryStage # rendered.retryStage

\* Mutant of ResetDeps: the reset effect has no dependency array.
ResetDepsEveryRender == TRUE

\* `[station?.stationuuid]`
ResetDeps == station # rendered.station

\* One commit: the render of the current props and state, then the effects
\* whose dependencies changed, in declaration order.
Render ==
  /\ ~MicrotaskPending
  /\ Dirty
  /\ rendered' = [station |-> station, isPlaying |-> isPlaying,
                  retryStage |-> retryStage, error |-> error,
                  isCorsBlocked |-> isCorsBlocked]
  /\ IF VisualizerDeps /\ station # NoStation
       THEN \E outcome \in OutcomesFor(isPlaying, error, isCorsBlocked) :
              VisualizerEffect(isPlaying, error, isCorsBlocked, outcome)
       ELSE UNCHANGED analysisVars
  /\ IF LoadDeps /\ station # NoStation
       THEN \E now \in ClockReads(retryStage) :
              LoadEffect(station, retryStage, isPlaying, error, now)
       ELSE UNCHANGED << hlsLive, hlsRef, audio, playPromises, isBuffering >>
  /\ listenerStage' = IF ListenerDeps /\ station # NoStation
                        THEN retryStage ELSE listenerStage
  /\ IF ResetDeps
       THEN /\ retryStage' = 0
            /\ error' = NoError
            /\ errorDirty' = (error # NoError)
       ELSE /\ errorDirty' = FALSE
            /\ UNCHANGED << retryStage, error >>
  /\ UNCHANGED << station, isPlaying, envVars, harnessVars >>


\* ------------------------------------------------- media element listeners
\* Mutant of ErrorTypeFor: the type starts as 'OFFLINE' (as in the earlier
\* six-stage variant) instead of 'UNKNOWN'.
ErrorTypeOfflineDefault(src, code) ==
  IF pageSecure /\ startsWith(src, "http://") THEN "ACCESS"
  ELSE IF code = MEDIA_ERR_NETWORK THEN "NETWORK"
  ELSE IF code = MEDIA_ERR_DECODE THEN "DECODE"
  ELSE "OFFLINE"

\* The type handlePlaybackError reports at the last stage.
ErrorTypeFor(src, code) ==
  IF pageSecure /\ startsWith(src, "http://") THEN "ACCESS"
  ELSE IF code # 0
    THEN (IF code = MEDIA_ERR_NETWORK THEN "NETWORK"
          ELSE IF code = MEDIA_ERR_DECODE THEN "DECODE"
          ELSE "OFFLINE")
    ELSE "UNKNOWN"

\* `if (retryStage >= 5)` on the retryStage the listener closed over.
Exhausted(closureStage) == closureStage >= FinalStage

\* handlePlaybackError with the closure's retryStage, on an element whose
\* error code is `code`.
handlePlaybackError(closureStage, code) ==
  IF Exhausted(closureStage)
    THEN /\ isBuffering' = FALSE
         /\ error' = ErrorTypeFor(audio.src, code)
         /\ errorDirty' = TRUE
         /\ UNCHANGED retryStage
    ELSE /\ retryStage' = retryStage + 1
         /\ UNCHANGED << isBuffering, error, errorDirty >>

\* An 'error' event now would advance retryStage: through the listener, or
\* through the catch of a play request it rejects.
MayEscalate ==
  \/ listenerStage # NoListener /\ ~Exhausted(listenerStage)
  \/ \E p \in playPromises : p.state = "pending" /\ p.hasCatch

\* The element fires 'error' (dedicated media source failure, or a network /
\* decode error of a playing stream); the pending play promises are queued
\* for rejection.
EnvMediaError(code) ==
  /\ ~MicrotaskPending
  /\ MayEscalate => retryStage < StageCap
  /\ audio.exists
  /\ audio.readyState \in {"loading", "ready"}
  /\ audio' = [audio EXCEPT !.error = code, !.readyState = "failed"]
  /\ playPromises' = { IF p.state = "pending"
                         THEN [p EXCEPT !.state = "failing"] ELSE p
                       : p \in playPromises }
  /\ IF listenerStage # NoListener
       THEN handlePlaybackError(listenerStage, code)
       ELSE UNCHANGED << isBuffering, error, errorDirty, retryStage >>
  /\ UNCHANGED << station, isPlaying, rendered, listenerStage, hlsRef,
                  hlsLive, envVars,
                  analysisVars, harnessVars >>

\* The queued task that rejects the play promises of a failed load.
EnvRejectTask ==
  /\ ~MicrotaskPending
  /\ \E p \in playPromises : p.state = "failing"
  /\ playPromises' = { IF p.state = "failing"
                         THEN [p EXCEPT !.state = "NotSupportedError"] ELSE p
                       : p \in playPromises }
  /\ UNCHANGED << station, isPlaying, retryStage, error, errorDirty,
                  isBuffering, rendered, audio, listenerStage, hlsRef,
                  hlsLive, envVars,
                  analysisVars, harnessVars >>

\* The browser refuses to start playback (autoplay policy): the promise is
\* rejected with NotAllowedError and no 'error' event is fired.
EnvPlayRejected ==
  /\ ~MicrotaskPending
  /\ \E p \in playPromises :
       /\ p.state = "pending"
       /\ p.hasCatch => retryStage < StageCap
       /\ playPromises' =
            (playPromises \ {p}) \cup {[p EXCEPT !.state = "NotAllowedError"]}
  /\ audio' = [audio EXCEPT !.paused = TRUE]
  /\ UNCHANGED << station, isPlaying, retryStage, error, errorDirty,
                  isBuffering, rendered, listenerStage, hlsRef, hlsLive,
                  envVars,
                  analysisVars, harnessVars >>

\* handleCanPlay, on 'canplay'.
EnvCanPlay ==
  /\ ~MicrotaskPending
  /\ audio.exists
  /\ audio.readyState = "loading"
  /\ audio' = [audio EXCEPT !.readyState = "ready"]
  /\ IF listenerStage # NoListener
       THEN /\ isBuffering' = FALSE
            /\ error' = NoError
            /\ errorDirty' = ErrorDirtyAfterNull
       ELSE UNCHANGED << isBuffering, error, errorDirty >>
  /\ UNCHANGED << station, isPlaying, retryStage, rendered, listenerStage,
                  hlsRef, hlsLive, playPromises, envVars,
                  analysisVars, harnessVars >>

\* Playback starts: the pending play promise is resolved.
EnvPlaying ==
  /\ ~MicrotaskPending
  /\ audio.readyState = "ready"
  /\ ~audio.paused
  /\ \E p \in playPromises :
       /\ p.state = "pending"
       /\ playPromises' =
            (playPromises \ {p}) \cup {[p EXCEPT !.state = "resolved"]}
  /\ UNCHANGED << station, isPlaying, retryStage, error, errorDirty,
                  isBuffering, rendered, audio, listenerStage, hlsRef,
                  hlsLive, envVars,
                  analysisVars, harnessVars >>

\* handleWaiting, on 'waiting' and 'stalled'.
EnvWaiting ==
  /\ ~MicrotaskPending
  /\ audio.exists
  /\ audio.readyState \in {"loading", "ready"}
  /\ listenerStage # NoListener
  /\ isBuffering' = TRUE
  /\ UNCHANGED << station, isPlaying, retryStage, error, errorDirty,
                  rendered, audio, listenerStage, hlsRef, hlsLive,
                  playPromises, envVars,
                  analysisVars, harnessVars >>

\* The animation frame callback: draw, as the effect run that owns the
\* pending frame built it; it requests the next frame.
AnimationFrame ==
  /\ ~MicrotaskPending
  /\ animationRef.pending
  /\ animationRef.time < MaxTime
  /\ amplitude' = DrawBranch(animationRef.isCorsBlocked, audioCtxRef)
  /\ animationRef' = [animationRef EXCEPT !.time = @ + 1]
  /\ UNCHANGED << station, isPlaying, retryStage, error, errorDirty,
                  isBuffering, rendered, audio, listenerStage, hlsRef,
                  hlsLive, playPromises, envVars, isCorsBlocked, audioCtxRef,
                  tapAttempts, ctxCreated, sourceCreated, harnessVars >>

\* ------------------------------------------------------- hls.js handlers
\* Hls.Events.MANIFEST_PARSED: `if (isPlaying) safePlay()`, no catch.
HlsManifestParsed ==
  /\ ~MicrotaskPending
  /\ hlsRef.state = "loading"
  /\ hlsRef' = [hlsRef EXCEPT !.state = "parsed"]
  /\ LET plays == hlsRef.isPlaying
                    /\ safePlayGuard(hlsRef.isPlaying, hlsRef.hasError)
     IN  /\ playPromises' =
               IF hlsRef.isPlaying
                 THEN safePlay(playPromises, hlsRef.isPlaying, hlsRef.hasError,
                               FALSE, audio.srcStage,
                               audio.readyState = "failed")
                 ELSE playPromises
         /\ audio' = IF plays /\ audio.readyState # "failed"
                       THEN [audio EXCEPT !.paused = FALSE] ELSE audio
  /\ UNCHANGED << station, isPlaying, retryStage, error, errorDirty,
                  isBuffering, rendered, listenerStage, hlsLive, envVars,
                  analysisVars, harnessVars >>

\* `if (data.fatal) setRetryStage(prev => prev + 1)`
HlsErrorStage(fatal, stage) == IF fatal THEN stage + 1 ELSE stage

\* Hls.Events.ERROR with data.fatal = fatal.
HlsError(fatal) ==
  /\ ~MicrotaskPending
  /\ fatal => retryStage < StageCap
  /\ hlsRef # NoHls
  /\ retryStage' = HlsErrorStage(fatal, retryStage)
  /\ hlsRef' = IF fatal THEN [hlsRef EXCEPT !.state = "fatal"] ELSE hlsRef
  /\ UNCHANGED << station, isPlaying, error, errorDirty, isBuffering,
                  rendered, audio, listenerStage, hlsLive, playPromises,
                  envVars,
                  analysisVars, harnessVars >>

\* Hls.ErrorTypes: the values data.type can take.
HlsErrorTypes == {"networkError", "mediaError", "otherError"}

\* Hls.Events.ERROR as hls.js emits it, with data.type and data.fatal; the
\* handler reads data.fatal only.
HlsErrorEvent(type, fatal) == type \in HlsErrorTypes /\ HlsError(fatal)

\* ------------------------------------------------ safePlay's continuation
\* Mutant of OnRejected: the AbortError test is dropped.
OnRejectedNoAbortTest(reason) == "throw"

\* What safePlay does with a rejection: "swallow" (AbortError) or "throw".
OnRejected(reason) == IF reason # "AbortError" THEN "throw" ELSE "swallow"

\* The part of safePlay after `await`, and the caller's catch, for promise p.
SafePlaySettled(p) ==
  /\ p \in playPromises
  /\ Settled(p)
  /\ playPromises' = playPromises \ {p}
  /\ IF p.state = "resolved"
       THEN /\ error' = NoError
            /\ errorDirty' = ErrorDirtyAfterNull
            /\ UNCHANGED retryStage
       ELSE IF OnRejected(p.state) = "throw" /\ p.hasCatch
         THEN /\ retryStage' = retryStage + 1
              /\ UNCHANGED << error, errorDirty >>
         ELSE UNCHANGED << retryStage, error, errorDirty >>
  /\ UNCHANGED << station, isPlaying, isBuffering, rendered, audio,
                  listenerStage, hlsRef, hlsLive, envVars,
                  analysisVars, harnessVars >>

\* ------------------------------------------------------------ specification
Next ==
  \/ \E s \in Stations : PlayStation(s)
  \/ TogglePlay
  \/ handleManualRetry
  \/ Render
  \/ \E code \in ErrorCodes : EnvMediaError(code)
  \/ EnvRejectTask
  \/ EnvPlayRejected
  \/ EnvCanPlay
  \/ EnvPlaying
  \/ EnvWaiting
  \/ AnimationFrame
  \/ HlsManifestParsed
  \/ \E type \in HlsErrorTypes, fatal \in BOOLEAN : HlsErrorEvent(type, fatal)
  \/ \E p \in playPromises : SafePlaySettled(p)

Spec == Init /\ [][Next]_vars

\* ------------------------------------------- a station that never plays
\* The listener tunes to one station and leaves the intent at playing; every
\* load attempt of that station fails (no 'canplay', no resolved play
\* request), some time after the render that made it: the element fires
\* 'error', or the adapter reports its one fatal error.
Tune(s) == station = NoStation /\ PlayStation(s)

LoadFails(code) == ~Dirty /\ EnvMediaError(code)

AdapterFails == ~Dirty /\ hlsRef.state # "fatal" /\ HlsError(TRUE)

NextDead ==
  \/ \E s \in Stations : Tune(s)
  \/ Render
  \/ \E code \in ErrorCodes : LoadFails(code)
  \/ EnvRejectTask
  \/ AnimationFrame
  \/ HlsManifestParsed
  \/ AdapterFails
  \/ \E p \in playPromises : SafePlaySettled(p)

\* Renders are scheduled, queued tasks and microtasks run, and a dead source
\* keeps failing.
FairDead ==
  /\ WF_vars(Render)
  /\ WF_vars(\E code \in ErrorCodes : LoadFails(code))
  /\ WF_vars(EnvRejectTask)
  /\ WF_vars(AdapterFails)
  /\ WF_vars(\E p \in playPromises : SafePlaySettled(p))

DeadSpec == Init /\ [][NextDead]_vars /\ FairDead

\* ----------------------------------------------------------------- teardown
\* The host unmounts the player: React runs the cleanup of every effect.  The
\* visualizer effect cancels its frame and the listener effect removes its
\* listeners; the load effect returns no cleanup, so the element and the
\* adapter are left as they are.
Unmount ==
  /\ mounted
  /\ ~MicrotaskPending
  /\ mounted' = FALSE
  /\ animationRef' = NoFrame
  /\ listenerStage' = NoListener
  /\ UNCHANGED << station, isPlaying, retryStage, error, errorDirty,
                  isBuffering, rendered, audio, hlsRef, hlsLive, playPromises,
                  envVars, isCorsBlocked, audioCtxRef, tapAttempts,
                  ctxCreated, sourceCreated, amplitude, probe, hlsRetry,
                  appVars >>

\* The dead station of DeadSpec, in a player the host may unmount at any
\* time; nothing of an unmounted player is followed.
TeardownNext ==
  \/ mounted /\ \E s \in Stations : Tune(s)
  \/ mounted /\ Render
  \/ mounted /\ \E code \in ErrorCodes : LoadFails(code)
  \/ mounted /\ EnvRejectTask
  \/ mounted /\ AnimationFrame
  \/ mounted /\ HlsManifestParsed
  \/ mounted /\ AdapterFails
  \/ mounted /\ \E p \in playPromises : SafePlaySettled(p)
  \/ Unmount

TeardownSpec == Init /\ [][TeardownNext]_vars

\* ------------------------------------- a station behind a strict CORS policy
\* The attempt the element holds can succeed: it is made on the original URL
\* and without the crossOrigin attribute.
Reachable == ~UsesResolved(audio.srcStage) /\ ~audio.crossOrigin

\* The resolved URL of the station is dead and its original URL answers only
\* requests made without CORS: an attempt fails unless it is Reachable.
AttemptFails(code) == ~Reachable /\ LoadFails(code)

AttemptLoads == Reachable /\ ~Dirty /\ EnvCanPlay

AttemptPlays == Reachable /\ EnvPlaying

CorsNext ==
  \/ \E s \in Stations : Tune(s)
  \/ Render
  \/ \E code \in ErrorCodes : AttemptFails(code)
  \/ AttemptLoads
  \/ AttemptPlays
  \/ EnvRejectTask
  \/ AnimationFrame
  \/ HlsManifestParsed
  \/ AdapterFails
  \/ \E p \in playPromises : SafePlaySettled(p)

CorsSpec == Init /\ [][CorsNext]_vars

\* ------------------------------ the adapter session of the three-stage variant
\* components/RadioPlayer.tsx keeps the same state under the same names and
\* a sequence of three stages; its load effect classifies the fatal errors of
\* the adapter.  `if (retryStage < 2)`: the last stage of that sequence.
LastStage3 == 2

\* `manifestLoadingMaxRetry: 2, levelLoadingMaxRetry: 2`
ManifestLoadingMaxRetry == 2

\* The stations the three-stage load effect gives to the adapter at every
\* stage.
Segmented == {s \in Stations : StationTable[s].hls = 1}

getUrlForStage3(s, stage, secure) ==
  LET baseUrl == IF stage = 2
                   THEN s.url
                   ELSE (IF s.url_resolved # <<>> THEN s.url_resolved
                                                  ELSE s.url)
  IN  IF stage = 0 /\ startsWith(baseUrl, "http://") /\ secure
        THEN replace(baseUrl, "http://", "https://")
        ELSE baseUrl

\* `streamUrl.includes('.m3u8') || ... || station.hls === 1 || ...`
isHls3(s, url) == includes(url, ".m3u8") \/ s.hls = 1

\* The message handlePlaybackError displays at the last stage.
ErrorMessage3(url, code) ==
  IF pageSecure /\ startsWith(url, "http://") THEN "Insecure stream blocked."
  ELSE IF code = 3 THEN "Decode error: Format not supported."
  ELSE IF code = 4 THEN "Station offline or address changed."
  ELSE "Stream unreachable."

\* handlePlaybackError of the effect run that saw closureStage and built url.
handlePlaybackError3(closureStage, url, code) ==
  IF closureStage < LastStage3
    THEN /\ retryStage' = retryStage + 1
         /\ UNCHANGED << error, errorDirty, isBuffering >>
    ELSE /\ error' = ErrorMessage3(url, code)
         /\ errorDirty' = (ErrorMessage3(url, code) # rendered.error)
         /\ isBuffering' = FALSE
         /\ UNCHANGED retryStage

\* The load effect of the three-stage variant for the render that saw
\* (s, k, p, e): the cleanup of the previous run, then the new attempt.
LoadEffect3(s, k, p, e) ==
  LET url     == getUrlForStage3(StationTable[s], k, pageSecure)
      useHls  == isHls3(StationTable[s], url) /\ hlsSupported
      aborted == AbortPending(playPromises)
      plays   == ~useHls /\ p /\ safePlayGuard(p, e # NoError)
  IN  /\ hlsLive' = DestroyHls(hlsLive) + (IF useHls THEN 1 ELSE 0)
      /\ hlsRef' = IF useHls
                     THEN [state |-> "loading", isPlaying |-> p,
                           hasError |-> e # NoError]
                     ELSE NoHls
      /\ hlsRetry' = 0
      /\ audio' = [exists      |-> TRUE,
                   src         |-> IF useHls THEN <<"blob:">> ELSE url,
                   crossOrigin |-> IF useHls THEN audio.crossOrigin ELSE TRUE,
                   paused      |-> ~plays,
                   error       |-> 0,
                   readyState  |-> "loading",
                   srcStation  |-> s,
                   srcStage    |-> k]
      /\ playPromises' = IF useHls \/ ~p
                           THEN aborted
                           ELSE safePlay(aborted, p, e # NoError, TRUE, k, FALSE)
      /\ isBuffering' = TRUE
      /\ listenerStage' = k

\* One commit of the three-stage variant: the load effect (which starts with
\* setError(null)), then the reset effect.
Render3 ==
  /\ ~MicrotaskPending
  /\ Dirty
  /\ rendered' = [station |-> station, isPlaying |-> isPlaying,
                  retryStage |-> retryStage, error |-> error,
                  isCorsBlocked |-> isCorsBlocked]
  /\ IF LoadDeps /\ station # NoStation
       THEN LoadEffect3(station, retryStage, isPlaying, error)
       ELSE UNCHANGED << hlsLive, hlsRef, hlsRetry, audio, playPromises,
                         isBuffering, listenerStage >>
  /\ IF ResetDeps \/ (LoadDeps /\ station # NoStation)
       THEN /\ error' = NoError
            /\ errorDirty' = (error # NoError)
       ELSE /\ errorDirty' = FALSE
            /\ UNCHANGED error
  /\ retryStage' = IF ResetDeps THEN 0 ELSE retryStage
  /\ UNCHANGED << station, isPlaying, envVars, analysisVars, probe, mounted,
                  appVars >>

\* The Hls.Events.ERROR handler of the three-stage variant, on a fatal error.
OnFatal3(type) ==
  IF type = "networkError"
    THEN \* hls.startLoad()
         /\ hlsRef' = [hlsRef EXCEPT !.state = "loading"]
         /\ hlsRetry' = 0
         /\ UNCHANGED << retryStage, error, errorDirty, isBuffering >>
  ELSE IF type = "mediaError"
    THEN \* hls.recoverMediaError()
         /\ hlsRef' = [hlsRef EXCEPT !.state = "recovering"]
         /\ UNCHANGED << hlsRetry, retryStage, error, errorDirty,
                         isBuffering >>
  ELSE /\ handlePlaybackError3(
            audio.srcStage,
            getUrlForStage3(StationTable[audio.srcStation], audio.srcStage,
                            pageSecure),
            audio.error)
       /\ hlsRef' = [hlsRef EXCEPT !.state = "fatal"]
       /\ UNCHANGED hlsRetry

\* A load of the adapter fails.  hls.js retries a failed manifest or level
\* load ManifestLoadingMaxRetry times, reporting errors that are not fatal
\* (the handler ignores them), and then reports a fatal network error; media
\* errors and the other errors are reported as fatal at once.
HlsLoadFails3(type) ==
  /\ ~MicrotaskPending
  /\ hlsRef # NoHls
  /\ hlsRef.state # "fatal"
  /\ (type = "otherError" /\ audio.srcStage < LastStage3)
       => retryStage < StageCap
  /\ IF type = "networkError" /\ hlsRetry < ManifestLoadingMaxRetry
       THEN /\ hlsRetry' = hlsRetry + 1
            /\ UNCHANGED << hlsRef, retryStage, error, errorDirty,
                            isBuffering >>
       ELSE OnFatal3(type)
  /\ UNCHANGED << station, isPlaying, rendered, audio, listenerStage,
                  hlsLive, playPromises, envVars, analysisVars, probe,
                  mounted, appVars >>

\* A segmented station whose loads keep failing, on a runtime with hls.js.
AdapterInit == Init /\ hlsSupported

AdapterNext ==
  \/ \E s \in Segmented : Tune(s)
  \/ TogglePlay
  \/ Render3
  \/ \E type \in HlsErrorTypes : HlsLoadFails3(type)

\* Renders are scheduled and the loads keep failing.
FairAdapter ==
  /\ WF_vars(Render3)
  /\ WF_vars(\E type \in HlsErrorTypes : HlsLoadFails3(type))

AdapterSpec == AdapterInit /\ [][AdapterNext]_vars /\ FairAdapter

\* ---------------------------------------------- the resolver, stage by stage
\* The attempt the load effect makes for station s at a stage: the URL of
\* getUrlForStage, the crossOrigin attribute and the choice of the adapter.
Attempt(s, stage, now) ==
  LET url == getUrlForStage(StationTable[s], stage, pageSecure, now)
  IN  [stage       |-> stage,
       url         |-> url,
       crossOrigin |-> CrossOriginFor(stage),
       hls         |-> UseHls(url, stage)]

CallsAt(stage) ==
  Cardinality({i \in DOMAIN probe.calls : probe.calls[i].stage = stage})

\* One station of the table is followed from stage 0, on a page of either
\* scheme, with or without hls.js support.
ResolverInit ==
  /\ InitPlayer
  /\ probe \in {[station |-> s, stage |-> 0, calls |-> << >>] :
                   s \in DOMAIN StationTable}
  /\ InitMounted
  /\ InitApp

\* The load effect asks for the attempt of the current stage, at time now.
ResolveCall(now) ==
  /\ probe.station # NoStation
  /\ CallsAt(probe.stage) < MaxCalls
  /\ probe' = [probe EXCEPT
                 !.calls = Append(@, Attempt(probe.station, probe.stage, now))]
  /\ UNCHANGED << station, isPlaying, retryStage, error, errorDirty,
                  isBuffering, rendered, audio, listenerStage, hlsRef,
                  hlsLive, playPromises, envVars, analysisVars, mounted,
                  hlsRetry, appVars >>

\* setRetryStage(prev => prev + 1), up to the final stage.
Escalate ==
  /\ probe.station # NoStation
  /\ probe.stage < FinalStage
  /\ probe' = [probe EXCEPT !.stage = @ + 1]
  /\ UNCHANGED << station, isPlaying, retryStage, error, errorDirty,
                  isBuffering, rendered, audio, listenerStage, hlsRef,
                  hlsLive, playPromises, envVars, analysisVars, mounted,
                  hlsRetry, appVars >>

ResolverNext ==
  \/ \E now \in Times : ResolveCall(now)
  \/ Escalate

ResolverSpec == ResolverInit /\ [][ResolverNext]_vars

\* ------------------------------------------------------------ the App's lists
\* `const MAX_RECENT = 10`
MAX_RECENT == 10

\* A card is clicked at most MaxClicks times (clickcount grows with a click).
MaxClicks == 2

\* The directory holds one station more than the recently-played list can.
AppIds == 1 .. MAX_RECENT + 1

\* The vote count the directory returns for a station, and the counts a list
\* saved by an earlier session may hold for it.
ServerVotes == 5

StoredVotes == {ServerVotes - 1, ServerVotes}

\* The stations the listener plays (the head of a saved list, a station
\* inside it, a station outside it) and the station the listener votes for.
PlayChoices == {1, 2, MAX_RECENT + 1}

VoteChoices == {1}

\* The station is not in the list.
NotListed == -1

\* A Station object, as far as the App changes it.
Card(id, v, c) == [stationuuid |-> id, votes |-> v, clickcount |-> c]

Listed(list, id) == \E k \in DOMAIN list : list[k].stationuuid = id

\* The vote count a list displays for a station.
VotesIn(list, id) ==
  IF Listed(list, id)
    THEN (CHOOSE s \in {list[k] : k \in DOMAIN list} : s.stationuuid = id).votes
    ELSE NotListed

\* Position of a station in a list (0 if it is not in it).
Pos(list, id) ==
  IF Listed(list, id)
    THEN CHOOSE k \in DOMAIN list :
           list[k].stationuuid = id
             /\ \A j \in 1 .. k - 1 : list[j].stationuuid # id
    ELSE 0

\* `list.map(s => s.stationuuid === stationuuid ? { ...s, ...updates } : s)`
UpdateList(list, id, field, value) ==
  [k \in DOMAIN list |->
     IF list[k].stationuuid = id THEN [list[k] EXCEPT ![field] = value]
                                 ELSE list[k]]

\* `prev.filter(s => s.stationuuid !== station.stationuuid)`
Without(list, id) == SelectSeq(list, LAMBDA s : s.stationuuid # id)

\* `.slice(0, n)`
Slice(list, n) == SubSeq(list, 1, IF Len(list) < n THEN Len(list) ELSE n)

\* Mutant of RecentAfterPlay: the station's earlier entry is not filtered out.
RecentAfterPlayUnfiltered(prev, card) == Slice(<<card>> \o prev, MAX_RECENT)

\* `[station, ...filtered].slice(0, MAX_RECENT)`
RecentAfterPlay(prev, card) ==
  Slice(<<card>> \o Without(prev, card.stationuuid), MAX_RECENT)

\* The Station objects of the cards on screen: station cards are rendered
\* from stations and favorites, the recently-played strip has play buttons.
StationCards == {stations[k] : k \in DOMAIN stations}
                  \cup {favorites[k] : k \in DOMAIN favorites}

PlayCards == StationCards \cup {recentlyPlayed[k] : k \in DOMAIN recentlyPlayed}

\* playStation(station), station being the object of the clicked card.
playStation(card) ==
  LET id == card.stationuuid
      c  == card.clickcount + 1
  IN  /\ card.clickcount < MaxClicks
      /\ stations' = UpdateList(stations, id, "clickcount", c)
      /\ favorites' = UpdateList(favorites, id, "clickcount", c)
      /\ recentlyPlayed' =
           RecentAfterPlay(UpdateList(recentlyPlayed, id, "clickcount", c),
                           card)
      /\ station' = id
      /\ isPlaying' = TRUE
      /\ UNCHANGED << retryStage, error, errorDirty, isBuffering, rendered,
                      audio, listenerStage, hlsRef, hlsLive, playPromises,
                      envVars, analysisVars, probe, mounted, hlsRetry,
                      votedIds, voteRequests >>

toggleFavorite(card) ==
  /\ favorites' = IF Listed(favorites, card.stationuuid)
                    THEN Without(favorites, card.stationuuid)
                    ELSE Append(favorites, card)
  /\ UNCHANGED << station, isPlaying, retryStage, error, errorDirty,
                  isBuffering, rendered, audio, listenerStage, hlsRef,
                  hlsLive, playPromises, envVars, analysisVars, probe,
                  mounted, hlsRetry, stations, recentlyPlayed, votedIds,
                  voteRequests >>

\* handleVote up to its `await`: the optimistic update and the request.  The
\* request keeps station.votes of the clicked card; `shown` records what each
\* list displayed before the click.
handleVote(card) ==
  LET id == card.stationuuid
  IN  /\ id \notin votedIds
      /\ stations' = UpdateList(stations, id, "votes", card.votes + 1)
      /\ favorites' = UpdateList(favorites, id, "votes", card.votes + 1)
      /\ recentlyPlayed' =
           UpdateList(recentlyPlayed, id, "votes", card.votes + 1)
      /\ votedIds' = votedIds \cup {id}
      /\ voteRequests' = voteRequests \cup
           {[stationuuid |-> id,
             votes       |-> card.votes,
             shown       |-> [stations       |-> VotesIn(stations, id),
                              favorites      |-> VotesIn(favorites, id),
                              recentlyPlayed |-> VotesIn(recentlyPlayed, id)]]}
      /\ UNCHANGED << station, isPlaying, retryStage, error, errorDirty,
                      isBuffering, rendered, audio, listenerStage, hlsRef,
                      hlsLive, playPromises, envVars, analysisVars, probe,
                      mounted, hlsRetry >>

\* What the request can do: the directory accepts the vote, refuses it, or
\* fetch throws.
VoteOutcomes == {"accepted", "refused", "throws"}

\* radioService.voteForStation: result.ok.
voteForStation(outcome) == IF outcome = "throws" THEN FALSE
                           ELSE outcome = "accepted"

\* handleVote after its `await`, for the request req.
VoteResult(req, outcome) ==
  /\ req \in voteRequests
  /\ voteRequests' = voteRequests \ {req}
  /\ IF ~voteForStation(outcome)
       THEN /\ stations' = UpdateList(stations, req.stationuuid, "votes",
                                      req.votes)
            /\ favorites' = UpdateList(favorites, req.stationuuid, "votes",
                                       req.votes)
            /\ recentlyPlayed' = UpdateList(recentlyPlayed, req.stationuuid,
                                            "votes", req.votes)
            /\ votedIds' = votedIds \ {req.stationuuid}
       ELSE UNCHANGED << stations, favorites, recentlyPlayed, votedIds >>
  /\ UNCHANGED << station, isPlaying, retryStage, error, errorDirty,
                  isBuffering, rendered, audio, listenerStage, hlsRef,
                  hlsLive, playPromises, envVars, analysisVars, probe,
                  mounted, hlsRetry >>

\* The recently-played list a session saved: the first MAX_RECENT stations,
\* the voted station with the count v of that day.
SavedRecent(v) ==
  [i \in 1 .. MAX_RECENT |->
     Card(i, IF i \in VoteChoices THEN v ELSE ServerVotes, 0)]

\* The App once its mount effect has loaded the saved lists and the first
\* fetch has returned the directory's stations.
AppInit ==
  /\ InitPlayer
  /\ probe = NoProbe
  /\ InitMounted
  /\ stations = [i \in AppIds |-> Card(i, ServerVotes, 0)]
  /\ favorites \in {<< >>} \cup {<<Card(id, v, 0)>> :
                                   id \in VoteChoices, v \in StoredVotes}
  /\ recentlyPlayed \in {<< >>} \cup {SavedRecent(v) : v \in StoredVotes}
  /\ votedIds = {}
  /\ voteRequests = {}

AppNext ==
  \/ \E card \in PlayCards :
       card.stationuuid \in PlayChoices /\ playStation(card)
  \/ \E card \in StationCards :
       card.stationuuid \in VoteChoices /\ toggleFavorite(card)
  \/ \E card \in StationCards :
       card.stationuuid \in VoteChoices /\ handleVote(card)
  \/ \E req \in voteRequests, outcome \in VoteOutcomes :
       VoteResult(req, outcome)

AppSpec == AppInit /\ [][AppNext]_vars

\* ------------------------------------------------------------ type invariant
TypeOK ==
  /\ station \in Stations \cup {NoStation}
  /\ isPlaying \in BOOLEAN
  /\ retryStage \in 0 .. StageCap + 1
  /\ error \in ErrorTypes \cup {NoError}
  /\ errorDirty \in BOOLEAN
  /\ isBuffering \in BOOLEAN
  /\ listenerStage \in (0 .. StageCap + 1) \cup {NoListener}
  /\ hlsLive \in 0 .. 1
  /\ Cardinality(playPromises) <= 2
  /\ isCorsBlocked \in BOOLEAN
  /\ audioCtxRef \in BOOLEAN
  /\ tapAttempts \in 0 .. 1
  /\ ctxCreated \in 0 .. 1
  /\ sourceCreated \in 0 .. 1
  /\ animationRef.time \in 0 .. MaxTime
  /\ amplitude \in {"zero", "live", "synthetic"}


\* ================================================================== claims

\* C1: one failed load attempt advances the stage index by exactly one: while
\* the element holds the attempt made at stage k for the current station,
\* retryStage is at most k + 1, whichever signals (fatal adapter error,
\* native 'error' event, rejected play request) that attempt has emitted.
C1_OneFailureOneStage ==
  (audio.exists /\ audio.srcStation = station)
    => retryStage <= audio.srcStage + 1

\* C2: the stage index stays within 0 .. 5 and no load attempt is made with
\* a stage index beyond the final one.
C2_StageInRange ==
  /\ retryStage \in 0 .. FinalStage
  /\ audio.srcStage \in 0 .. FinalStage

\* C3: the first source load issued for a new station is made at stage 0 and
\* by a render that sees no error.
C3_ResetBeforeFirstLoad ==
  [][ (audio'.srcStation # audio.srcStation)
        => (audio'.srcStage = 0 /\ rendered'.error = NoError) ]_vars

\* C4: the continuation of a play request rejected with AbortError changes
\* neither the stage index nor the failed status.
C4_AbortIsBenign ==
  [][ \A p \in playPromises :
        (p.state = "AbortError" /\ p \notin playPromises')
          => (retryStage' = retryStage /\ error' = error) ]_vars

\* C4 witness: a play request issued with a catch handler has been
\* superseded by a later load attempt and rejected with AbortError.
C4_Witness ==
  \E p \in playPromises :
    /\ p.state = "AbortError"
    /\ p.hasCatch
    /\ audio.readyState = "loading"

\* C5 as claimed: while the player keeps the same station, no transition
\* decreases retryStage.
C5_StageMonotone ==
  [][ (rendered'.station = rendered.station) => retryStage' >= retryStage ]_vars

\* C5 amended: while the player keeps the same station, retryStage decreases
\* only by the manual reset, which sets it to 0.
C5_StageMonotoneButReset ==
  [][ (rendered'.station = rendered.station /\ retryStage' < retryStage)
        => (handleManualRetry /\ retryStage' = 0) ]_vars

\* C5 witness: the manual reset has taken the stage from the final stage (or
\* beyond) back to 0 within one station session.
C5_Witness ==
  /\ station = rendered.station
  /\ rendered.retryStage >= FinalStage
  /\ rendered.error # NoError
  /\ retryStage = 0
  /\ error = NoError


\* The step in which the element fires 'error' for its current source.
ErrorEventStep == audio.readyState # "failed" /\ audio'.readyState = "failed"

\* C6 as claimed: when the final stage fails, the status is OFFLINE without
\* a native error, NETWORK for the network code, DECODE for the decode code
\* and OFFLINE for the remaining codes.
C6_FinalFailureType ==
  [][ (ErrorEventStep /\ listenerStage = FinalStage)
        => error' = (IF audio'.error = 0 THEN "OFFLINE"
                     ELSE IF audio'.error = 2 THEN "NETWORK"
                     ELSE IF audio'.error = 3 THEN "DECODE"
                     ELSE "OFFLINE") ]_vars

\* C6 amended: when the final stage fails, the status is ACCESS if the page
\* is https and the element's source is an http:// URL; otherwise UNKNOWN
\* without a native error, NETWORK for code 2, DECODE for code 3 and OFFLINE
\* for the remaining codes.
C6_FinalFailureTypeWithAccess ==
  [][ (ErrorEventStep /\ listenerStage = FinalStage)
        => error' = (IF pageSecure /\ audio.src[1] = "http://" THEN "ACCESS"
                     ELSE IF audio'.error = 0 THEN "UNKNOWN"
                     ELSE IF audio'.error = 2 THEN "NETWORK"
                     ELSE IF audio'.error = 3 THEN "DECODE"
                     ELSE "OFFLINE") ]_vars

\* C6 witness: the final stage has failed without a native error and the
\* status is failed(UNKNOWN).
C6_Witness ==
  /\ listenerStage = FinalStage
  /\ audio.srcStage = FinalStage
  /\ audio.readyState = "failed"
  /\ audio.error = 0
  /\ error = "UNKNOWN"

\* C7: at most one Hls instance is alive at any time, and it is the one
\* hlsRef refers to.
C7_SingleAdapter ==
  /\ hlsLive <= 1
  /\ (hlsLive = 1) <=> (hlsRef # NoHls)

\* C7 witness: a load attempt has replaced a live adapter by a new one (the
\* play request the old adapter issued on MANIFEST_PARSED was aborted by the
\* load effect that created the current adapter).
C7_Witness ==
  /\ hlsRef # NoHls
  /\ hlsLive = 1
  /\ \E p \in playPromises : p.state = "AbortError" /\ ~p.hasCatch

\* C8: a render in which only the intent changed, from playing to paused,
\* pauses the element and leaves the session intact: same stage, same
\* source, no new load, same adapter.
C8_PauseKeepsSession ==
  [][ ( /\ rendered.isPlaying /\ ~rendered'.isPlaying
        /\ rendered'.station = rendered.station
        /\ rendered'.retryStage = rendered.retryStage
        /\ ~errorDirty )
        => ( /\ audio'.paused
             /\ audio'.src = audio.src
             /\ audio'.readyState = audio.readyState
             /\ hlsRef' = hlsRef
             /\ retryStage' = retryStage ) ]_vars

\* C9: a failed status is raised only by a failure observed at the final
\* stage: whenever an 'error' event leaves error set, the stage index its
\* handler saw is the final stage.
C9_ErrorOnlyAtFinalStage ==
  [][ (ErrorEventStep /\ error' # NoError) => listenerStage = FinalStage ]_vars

EventuallyFailed == (station # NoStation) ~> (error # NoError)

\* C11: the manual reset, invoked from the failed status, sets the stage to 0,
\* clears the failed status, sets the buffering indicator and leaves the
\* intent at playing (the button's render being up to date on the intent);
\* the render that follows it for the same station issues a load attempt at
\* stage 0 and sees no error.
C11_ManualReset ==
  [][ /\ handleManualRetry
           => /\ retryStage' = 0
              /\ error' = NoError
              /\ isBuffering'
              /\ station' = station
              /\ (isPlaying = rendered.isPlaying) => isPlaying'
      /\ ( /\ Render
           /\ rendered.error # NoError /\ error = NoError
           /\ retryStage = 0 /\ station = rendered.station )
           => /\ audio'.srcStation = station
              /\ audio'.srcStage = 0
              /\ audio'.readyState = "loading"
              /\ isBuffering'
              /\ rendered'.error = NoError ]_vars

\* C11 witness: the manual reset has acted on a player that had failed at the
\* end of the sequence and was paused; the element still holds the failed
\* attempt and the render of the reset is due.
C11_Witness ==
  /\ station = rendered.station
  /\ audio.readyState = "failed" /\ listenerStage >= FinalStage
  /\ rendered.error # NoError
  /\ ~rendered.isPlaying
  /\ rendered.retryStage >= FinalStage
  /\ retryStage = 0
  /\ error = NoError
  /\ isBuffering
  /\ isPlaying

\* C12: once isCorsBlocked is true it stays true, and no later step tries to
\* build the tap again (no attempt, no new context, no new source, no
\* analyser).
C12_SyntheticIsSticky ==
  [][ isCorsBlocked
        => /\ isCorsBlocked'
           /\ tapAttempts' = tapAttempts
           /\ ctxCreated' = ctxCreated
           /\ sourceCreated' = sourceCreated
           /\ ~audioCtxRef' ]_vars

\* C12 witness: the tap was refused, and since then the stage has advanced,
\* the effect has run again with isCorsBlocked and frames have been drawn.
C12_Witness ==
  /\ isCorsBlocked
  /\ rendered.isCorsBlocked
  /\ rendered.retryStage > 0
  /\ rendered.isPlaying
  /\ animationRef.pending
  /\ animationRef.isCorsBlocked
  /\ animationRef.time > 1
  /\ amplitude = "synthetic"

\* C13: at most one AudioContext and at most one MediaElementSource are ever
\* created, and once the tap is attached no step creates another.
C13_TapAttachedOnce ==
  /\ [](ctxCreated <= 1 /\ sourceCreated <= 1)
  /\ [][ audioCtxRef
           => /\ audioCtxRef'
              /\ ctxCreated' = ctxCreated
              /\ sourceCreated' = sourceCreated ]_vars

\* C13 witness: the tap was attached and has sampled; since then the station
\* has gone through its stages and failed, the effect has cancelled the frame
\* loop, and the manual reset asks for a render that calls initAudioContext
\* again.
C13_Witness ==
  /\ audioCtxRef
  /\ ctxCreated = 1
  /\ sourceCreated = 1
  /\ amplitude = "live"
  /\ station = rendered.station
  /\ rendered.retryStage >= FinalStage
  /\ rendered.error # NoError
  /\ ~animationRef.pending
  /\ audio.readyState = "failed" /\ listenerStage >= FinalStage
  /\ retryStage = 0 /\ error = NoError /\ isPlaying

\* C14: the step in which building the tap throws leaves the failed status
\* unset and the stage index as it was (apart from the reset of a station
\* change committed by the same render); the frame loop runs and the
\* amplitude comes from the synthetic branch.
C14_TapFailureIsSilent ==
  [][ (~isCorsBlocked /\ isCorsBlocked')
        => /\ error = NoError
           /\ error' = NoError
           /\ retryStage' = (IF ResetDeps THEN 0 ELSE retryStage)
           /\ animationRef'.pending
           /\ amplitude' = "synthetic" ]_vars

\* C14 witness: building the tap has just thrown while a play request of the
\* same render is pending.
C14_Witness ==
  /\ isCorsBlocked
  /\ ~rendered.isCorsBlocked
  /\ ~audioCtxRef
  /\ error = NoError
  /\ amplitude = "synthetic"
  /\ animationRef.pending
  /\ audio.readyState = "loading"
  /\ \E p \in playPromises : p.state = "pending"

\* The playback status the player shows.
Status ==
  IF station = NoStation THEN "idle"
  ELSE IF error # NoError THEN "failed"
  ELSE IF ~isPlaying THEN "paused"
  ELSE IF isBuffering THEN "buffering"
  ELSE "playing"

\* C15: once the render of the current state is committed, an animation
\* frame of draw is pending only while the status is playing.
C15_FramesOnlyWhilePlaying ==
  (~Dirty /\ animationRef.pending) => Status = "playing"

\* C16 as claimed: two calls of the resolver for the same station and the
\* same stage return the same URL, at every stage.
C16_ResolverPure ==
  \A i, j \in DOMAIN probe.calls :
    probe.calls[i].stage = probe.calls[j].stage
      => probe.calls[i].url = probe.calls[j].url

\* C16 amended: for one station on one page, two calls at the same stage
\* return the same URL at stages 0 .. 4; at stage 5 they return URLs that
\* differ at most in the value of the cb= parameter, the time of the call.
C16_ResolverPureButCacheBuster ==
  \A i, j \in DOMAIN probe.calls :
    LET u == probe.calls[i].url
        v == probe.calls[j].url
    IN  probe.calls[i].stage = probe.calls[j].stage
          => IF probe.calls[i].stage = FinalStage
               THEN /\ Len(u) = Len(v)
                    /\ SubSeq(u, 1, Len(u) - 1) = SubSeq(v, 1, Len(v) - 1)
                    /\ u[Len(u) - 1] = "cb="
                    /\ u[Len(u)] \in Times
               ELSE u = v

\* C16 witness: the resolver was called twice at stage 4 and twice, at
\* different times, at stage 5.
C16_Witness ==
  /\ CallsAt(FinalStage - 1) = 2
  /\ \E i, j \in DOMAIN probe.calls :
       /\ probe.calls[i].stage = FinalStage
       /\ probe.calls[j].stage = FinalStage
       /\ probe.calls[i].url # probe.calls[j].url

\* C17: the scheme of the URL the resolver returns is https:// in place of
\* http:// exactly when the stage is 0 or 1, the page is served over https
\* and the chosen URL starts with http://; otherwise it is the scheme of the
\* chosen URL.
C17_UpgradeOnlyEarlyAndSecure ==
  \A i \in DOMAIN probe.calls :
    LET c    == probe.calls[i]
        base == ChosenUrl(StationTable[probe.station], c.stage)
    IN  c.url[1] = IF c.stage <= 1 /\ pageSecure /\ base[1] = "http://"
                     THEN "https://" ELSE base[1]

\* C17 witness: on an https page the resolver has upgraded an http:// URL at
\* an early stage and returned an http:// URL unchanged at a later stage.
C17_Witness ==
  /\ pageSecure
  /\ \E i, j \in DOMAIN probe.calls :
       /\ probe.calls[i].stage <= 1
       /\ ChosenUrl(StationTable[probe.station], probe.calls[i].stage)[1]
            = "http://"
       /\ probe.calls[i].url[1] = "https://"
       /\ probe.calls[j].stage >= 2
       /\ probe.calls[j].url[1] = "http://"

\* C18: at stage 5 the URL carries the cb= parameter; at every other stage
\* it is the chosen URL, or the chosen URL with its scheme upgraded, and
\* carries neither the parameter nor an added separator.
C18_LegacyOnlyAtFinalStage ==
  \A i \in DOMAIN probe.calls :
    LET c    == probe.calls[i]
        base == ChosenUrl(StationTable[probe.station], c.stage)
    IN  IF c.stage = FinalStage
          THEN includes(c.url, "cb=")
          ELSE /\ c.url \in {base, replace(base, "http://", "https://")}
               /\ ~includes(c.url, "cb=")

\* C18 witness: the resolver has returned the chosen URL at stage 4 and a URL
\* with the added separator and the cb= parameter at stage 5.
C18_Witness ==
  \E i, j \in DOMAIN probe.calls :
    /\ probe.calls[i].stage = FinalStage - 1
    /\ probe.calls[i].url = StationTable[probe.station].url
    /\ probe.calls[j].stage = FinalStage
    /\ includes(probe.calls[j].url, ";")
    /\ ~includes(StationTable[probe.station].url, ";")
    /\ includes(probe.calls[j].url, "cb=")

C20_CapabilityMonotone ==
  \A i, j \in DOMAIN probe.calls :
    LET a == probe.calls[i]
        b == probe.calls[j]
        s == StationTable[probe.station]
        Upgraded(c) == c.url[1] # ChosenUrl(s, c.stage)[1]
    IN  a.stage < b.stage
          => /\ ~a.crossOrigin => ~b.crossOrigin
             /\ ~Upgraded(a) => ~Upgraded(b)
             /\ ~a.hls => ~b.hls

\* C20 witness: a station attempted with the upgrade and strict CORS at
\* stage 0 has been attempted without either at a later stage.
C20_Witness ==
  \E i, j \in DOMAIN probe.calls :
    /\ probe.calls[i].stage = 0
    /\ probe.calls[i].crossOrigin
    /\ probe.calls[i].url[1]
         # ChosenUrl(StationTable[probe.station], 0)[1]
    /\ probe.calls[j].stage >= NoCorsStage
    /\ ~probe.calls[j].crossOrigin
    /\ probe.calls[j].url[1]
         = ChosenUrl(StationTable[probe.station], probe.calls[j].stage)[1]

\* C21: a fatal adapter error of the network kind or of the media kind is
\* recovered in place and leaves the stage index as it was; a fatal error of
\* the remaining kind raises the stage by one; an error that is not fatal
\* leaves the stage as it was.
C21_ErrorsClassified ==
  [][ /\ \A type \in {"networkError", "mediaError"} :
           HlsErrorEvent(type, TRUE)
             => (retryStage' = retryStage /\ hlsRef'.state # "fatal")
      /\ HlsErrorEvent("otherError", TRUE) => retryStage' = retryStage + 1
      /\ \A type \in HlsErrorTypes :
           HlsErrorEvent(type, FALSE) => retryStage' = retryStage ]_vars

\* C22: the load attempt of a segmented source at stage 0, where hls.js is
\* supported, goes through the adapter; a network error that is not fatal
\* leaves the stage as it was; the first fatal error of an adapter raises the
\* stage by one and the fatal errors that follow it from the same adapter
\* raise it no further.
C22_AdapterScenario ==
  [][ /\ ( /\ Render
           /\ audio'.readyState = "loading"
           /\ audio'.srcStage = 0
           /\ includes(getUrlForStage(StationTable[audio'.srcStation], 0,
                                      pageSecure, "t1"), ".m3u8")
           /\ hlsSupported ) => hlsRef' # NoHls
      /\ HlsErrorEvent("networkError", FALSE) => retryStage' = retryStage
      /\ \A type \in HlsErrorTypes :
           HlsErrorEvent(type, TRUE)
             => retryStage' = (IF hlsRef.state = "fatal"
                                 THEN retryStage ELSE retryStage + 1) ]_vars

\* C26: the amplitude the component holds lies in 0 .. 1 (live: the mean of
\* the byte bins over 255; synthetic: 0.2 + 0.1 sin), and once the render of
\* the current state is committed it is 0 unless the intent is playing and
\* no error is set.
C26_AmplitudeInRange ==
  /\ AmplitudeValues(amplitude) \subseteq 0 .. 1000
  /\ (~Dirty /\ ~(isPlaying /\ error = NoError)) => amplitude = "zero"

\* C27: while the failed status is set and neither the station nor the
\* intent changes nor the manual reset is invoked, the status stays failed
\* and no render runs the load effect.
C27_FailedIsTerminal ==
  [][ ( /\ error # NoError
        /\ station = rendered.station /\ station' = station
        /\ isPlaying = rendered.isPlaying /\ isPlaying' = isPlaying
        /\ ~handleManualRetry )
        => /\ error' # NoError
           /\ ~(Render /\ LoadDeps) ]_vars

\* C28: a play request is issued only by a safePlay whose render saw the
\* intent at playing and no error: the load effect of a render of such a
\* state, or the MANIFEST_PARSED handler of an adapter created by one.
C28_PlayOnlyWhenAllowed ==
  [][ /\ (Render /\ \E p \in playPromises' : p \notin AbortPending(playPromises))
           => (isPlaying /\ error = NoError)
      /\ (HlsManifestParsed /\ playPromises' # playPromises)
           => (hlsRef.isPlaying /\ ~hlsRef.hasError)
      /\ (audio.paused /\ ~audio'.paused)
           => \/ Render /\ isPlaying /\ error = NoError
              \/ HlsManifestParsed /\ hlsRef.isPlaying /\ ~hlsRef.hasError
    ]_vars

\* C28 witness: the MANIFEST_PARSED handler of an adapter whose render saw the
\* intent at playing and no error has issued a play request, after the
\* listener paused and before the render of the pause.
C28_Witness ==
  /\ hlsRef.state = "parsed"
  /\ hlsRef.isPlaying
  /\ ~hlsRef.hasError
  /\ ~audio.paused
  /\ \E p \in playPromises : p.state = "pending" /\ ~p.hasCatch
  /\ ~isPlaying
  /\ rendered.isPlaying

\* C24: for a station whose resolved URL is dead and whose original URL
\* answers only without CORS, no attempt is made beyond stage 4, the failed
\* status is never set, and the attempt that loads is the one of stage 4,
\* with the stage index at 4 and the analysis in synthetic mode.
C24_PlaysAtStageFour ==
  /\ audio.srcStage <= FinalStage - 1
  /\ error = NoError
  /\ audio.readyState = "ready"
       => /\ audio.srcStage = FinalStage - 1
          /\ retryStage = FinalStage - 1
          /\ isCorsBlocked

\* C25: an unmounted player and a player without a station hold no live
\* adapter, and once the render of the current state is committed a live
\* adapter is the one of the current station and stage.
C25_AdapterReleased ==
  /\ ~mounted => (hlsLive = 0 /\ hlsRef = NoHls)
  /\ station = NoStation => hlsLive = 0
  /\ (mounted /\ ~Dirty /\ hlsRef # NoHls)
       => (audio.srcStation = station /\ audio.srcStage = retryStage)

\* C23: an adapter whose loads keep failing does not stay at one stage for
\* ever: from every state in which an adapter is attached at stage k without
\* a failed status, the stage eventually leaves k or the failed status is
\* set.
C23_RecoveryBounded ==
  \A k \in 0 .. LastStage3 :
    (hlsRef # NoHls /\ retryStage = k /\ error = NoError)
      ~> (retryStage # k \/ error # NoError)

\* The stations of a list, in its order.
Ids(list) == [k \in DOMAIN list |-> list[k].stationuuid]

\* C29: the recently-played list holds at most MAX_RECENT stations, no
\* station twice, and the current station first; a step either keeps the
\* order of the list or puts one station in front of the others, which keep
\* their order and of which only the last ones are dropped.
C29_RecentlyPlayedList ==
  /\ [] /\ Len(recentlyPlayed) <= MAX_RECENT
        /\ \A j, k \in DOMAIN recentlyPlayed :
             recentlyPlayed[j].stationuuid = recentlyPlayed[k].stationuuid
               => j = k
        /\ station # NoStation
             => /\ recentlyPlayed # << >>
                /\ recentlyPlayed[1].stationuuid = station
  /\ [][ \/ Ids(recentlyPlayed') = Ids(recentlyPlayed)
         \/ /\ recentlyPlayed' # << >>
            /\ recentlyPlayed'[1].stationuuid = station'
            /\ LET others == SelectSeq(Ids(recentlyPlayed),
                                       LAMBDA id : id # station')
               IN  /\ Len(recentlyPlayed') - 1 <= Len(others)
                   /\ Tail(Ids(recentlyPlayed'))
                        = SubSeq(others, 1, Len(recentlyPlayed') - 1)
                   /\ Len(recentlyPlayed') < MAX_RECENT
                        => Len(recentlyPlayed') - 1 = Len(others) ]_vars

\* C29 witness: on a full list the listener has played a station of the list
\* and then a station outside it: both are in front, most recent first, and
\* the last station of the list has been dropped.
C29_Witness ==
  /\ Len(recentlyPlayed) = MAX_RECENT
  /\ recentlyPlayed[1].stationuuid = MAX_RECENT + 1
  /\ recentlyPlayed[2].stationuuid = 2
  /\ recentlyPlayed[3].stationuuid = 1
  /\ ~Listed(recentlyPlayed, MAX_RECENT)

\* C30: a vote request is made only for a station that is not in votedIds,
\* and the click adds it; when the request returns ok = false the station
\* leaves votedIds and every list that displayed it before the click
\* displays the count it displayed then.
C30_VoteRollbackExact ==
  [][ /\ \A req \in voteRequests' \ voteRequests :
           /\ req.stationuuid \notin votedIds
           /\ req.stationuuid \in votedIds'
      /\ \A req \in voteRequests :
           ( \E outcome \in VoteOutcomes :
               ~voteForStation(outcome) /\ VoteResult(req, outcome) )
             => /\ req.stationuuid \notin votedIds'
                /\ req.shown.stations # NotListed
                     => VotesIn(stations', req.stationuuid)
                          = req.shown.stations
                /\ ( req.shown.favorites # NotListed
                       /\ Listed(favorites', req.stationuuid) )
                     => VotesIn(favorites', req.stationuuid)
                          = req.shown.favorites
                /\ ( req.shown.recentlyPlayed # NotListed
                       /\ Listed(recentlyPlayed', req.stationuuid) )
                     => VotesIn(recentlyPlayed', req.stationuuid)
                          = req.shown.recentlyPlayed ]_vars

====
